---- MODULE Spec2Model ----
(***************************************************************************)
(* Elysia: the turn orchestrator of main_app.py (ConversationalAI), with   *)
(* the collaborators it calls (LLMService, ChromaMemoryService, ToolService *)
(* and TextToSpeechService) modelled at their interface.                   *)
(*                                                                         *)
(* A Python str is a sequence of one-character strings.  The environment   *)
(* (model replies, tool outcomes, I/O failures, the wall clock, the user   *)
(* interrupt and the supervisor restarting the process) is chosen          *)
(* nondeterministically from small sets.                                   *)
(***************************************************************************)
EXTENDS Integers, Sequences, FiniteSets, TLC

\* ------------------------------------------------------------------ bounds
\* utterances accepted over all sessions, the one of an earlier crashed
\* process included; a restart uses one up
MaxTurns == 2
\* processes started (the first start and the supervisor's restarts)
MaxSessions == 3
\* the wall clock reads 0..MaxClock seconds
MaxClock == 1

\* ------------------------------------------------- constants of the program
\* main_app.py:186  if step_count >= 5
MaxSteps == 5
\* main_app.py:83   full_response[:150]
FallbackLen == 150
\* memory_service_chroma.py:54  n_results: int = 5
N_RESULTS == 5

\* --------------------------------------------------------- string literals
LLM_ERROR_REPLY == <<"I", "'", "m", " ", "s", "o", "r", "r", "y", ",", " ", "I", " ", "e", "n", "c", "o", "u", "n", "t", "e", "r", "e", "d", " ", "a", "n", " ", "e", "r", "r", "o", "r", " ", "a", "n", "d", " ", "c", "o", "u", "l", "d", "n", "'", "t", " ", "p", "r", "o", "c", "e", "s", "s", " ", "y", "o", "u", "r", " ", "r", "e", "q", "u", "e", "s", "t", ".">>
MARKER == <<"t", "o", "o", "l", ":">>
READ_FILE == <<"r", "e", "a", "d", "_", "f", "i", "l", "e">>
WRITE_FILE == <<"w", "r", "i", "t", "e", "_", "f", "i", "l", "e">>
EXECUTE_PYTHON == <<"e", "x", "e", "c", "u", "t", "e", "_", "p", "y", "t", "h", "o", "n">>
EXECUTE_SHELL == <<"e", "x", "e", "c", "u", "t", "e", "_", "s", "h", "e", "l", "l">>
USE_GEMINI == <<"u", "s", "e", "_", "g", "e", "m", "i", "n", "i">>
TOOL_OUTPUT_PREFIX == <<"T", "o", "o", "l", " ", "o", "u", "t", "p", "u", "t", ":", "\n">>
UNKNOWN_TOOL_PREFIX == <<"[", "E", "r", "r", "o", "r", ":", " ", "U", "n", "k", "n", "o", "w", "n", " ", "t", "o", "o", "l", " ", "o", "r", " ", "w", "r", "o", "n", "g", " ", "a", "r", "g", "u", "m", "e", "n", "t", "s", ":", " ">>
TOOL_EXCEPTION_PREFIX == <<"[", "E", "r", "r", "o", "r", ":", " ", "E", "x", "c", "e", "p", "t", "i", "o", "n", " ", "d", "u", "r", "i", "n", "g", " ", "t", "o", "o", "l", " ", "e", "x", "e", "c", "u", "t", "i", "o", "n", ":", " ">>
CONTEXT_PREFIX == <<"R", "e", "l", "e", "v", "a", "n", "t", " ", "p", "a", "s", "t", " ", "c", "o", "n", "t", "e", "x", "t", ":", "\n">>
USER_SAID == <<"U", "s", "e", "r", " ", "s", "a", "i", "d", ":", " ">>
ASSISTANT_RESPONDED == <<"A", "s", "s", "i", "s", "t", "a", "n", "t", " ", "r", "e", "s", "p", "o", "n", "d", "e", "d", ":", " ">>
REFLECTION_PREFIX == <<"(", "S", "e", "l", "f", "-", "r", "e", "f", "l", "e", "c", "t", "i", "o", "n", ":", " ", "P", "r", "o", "v", "i", "d", "e", "d", " ", "a", " ", "d", "e", "t", "a", "i", "l", "e", "d", " ", "a", "n", "s", "w", "e", "r", ".", " ", "F", "u", "l", "l", " ", "r", "e", "s", "p", "o", "n", "s", "e", " ", "s", "a", "v", "e", "d", " ", "t", "o", " ", "'">>
REFLECTION_SUFFIX == <<"'", ".", ")">>
CRASH_NOTE_PREFIX == <<"(", "L", "a", "s", "t", " ", "c", "r", "a", "s", "h", " ", "r", "e", "p", "o", "r", "t", ":", " ">>
LOG_DIR == <<"r", "e", "s", "p", "o", "n", "s", "e", "_", "l", "o", "g", "s">>
FILE_PREFIX == <<"r", "e", "s", "p", "o", "n", "s", "e", "_">>
FILE_SUFFIX == <<".", "t", "x", "t">>
SYSTEM_ONLINE == <<"S", "y", "s", "t", "e", "m", " ", "o", "n", "l", "i", "n", "e", ".", " ", "I", " ", "a", "m", " ", "r", "e", "a", "d", "y", ".">>
GOODBYE == <<"S", "h", "u", "t", "t", "i", "n", "g", " ", "d", "o", "w", "n", ".", " ", "G", "o", "o", "d", "b", "y", "e", ".">>
APOLOGY == <<"I", "'", "v", "e", " ", "e", "n", "c", "o", "u", "n", "t", "e", "r", "e", "d", " ", "a", "n", " ", "i", "n", "t", "e", "r", "n", "a", "l", " ", "e", "r", "r", "o", "r", " ", "a", "n", "d", " ", "w", "i", "l", "l", " ", "a", "t", "t", "e", "m", "p", "t", " ", "t", "o", " ", "r", "e", "c", "o", "v", "e", "r", ".">>
\* the persona and tool guide, main_app.py:35-52; no operation inspects it
persona_prompt == <<"You are Elysia, ... TOOLS AVAILABLE: ...">>
ELLIPSIS == <<".", ".", ".">>
CLOSE_BRACKET == <<"]">>
CLOSE_PAREN == <<")">>
NEWLINE == <<"\n">>
SLASH == <<"/">>
EMPTY == << >>

\* ------------------------------------------------- inputs of the environment
R_HI == <<" ", "H", "i", " ", "t", "h", "e", "r", "e", ".", "\n">>
R_BLANK == <<" ", "\n">>
R_READ == <<"T", "O", "O", "L", ":", " ", "r", "e", "a", "d", "_", "f", "i", "l", "e", "(", "\"", "a", "\"", ")">>
R_UNKNOWN == <<"t", "o", "o", "l", ":", " ", "n", "o", "p", "e", "(", ")">>
R_ARITY == <<" ", "T", "o", "o", "l", ":", "w", "r", "i", "t", "e", "_", "f", "i", "l", "e", "(", "'", "a", "'", ")">>
HELLO == <<"H", "e", "l", "l", "o">>
SUMMARY == <<"H", "i", ".">>
TOOL_DATA == <<"X">>
TOOL_ERR == <<"b", "o", "o", "m">>
\* what ollama.chat can return for the conversation loop
Replies == {R_HI, R_BLANK, R_READ, R_UNKNOWN, R_ARITY}
ToolReplies == {R_READ, R_UNKNOWN, R_ARITY}
\* what ollama.chat can return for the summarization prompt
Summaries == {SUMMARY}
\* what stt.listen can return
Utterances == {HELLO, EMPTY}
\* a tool returns a string or raises an Exception
ToolOutcomes == {[raised |-> FALSE, text |-> TOOL_DATA], [raised |-> TRUE, text |-> TOOL_ERR]}
\* the exceptions that escape a turn, as str(e)
E_RETRIEVE == <<"retrieve">>
E_WRITE == <<"write">>
E_ADD_MEMORY == <<"add_memory">>
E_ADD_SYSTEM == <<"add_system_memory">>
TRACEBACK == <<"Traceback">>

NoFile == <<"<no file>">>
\* the report an earlier process left when its first turn crashed
EARLIER_CRASH == <<"earlier", "\n", "Traceback">>

\* ------------------------------------------------------- Python str methods
Whitespace == {" ", "\t", "\n", "\r"}
UPPER == <<"A","B","C","D","E","F","G","H","I","J","K","L","M","N","O","P","Q","R","S","T","U","V","W","X","Y","Z">>
LOWER == <<"a","b","c","d","e","f","g","h","i","j","k","l","m","n","o","p","q","r","s","t","u","v","w","x","y","z">>

\* str.lower() on one character
lower_char(c) ==
  IF \E i \in 1..26 : UPPER[i] = c
  THEN LOWER[CHOOSE i \in 1..26 : UPPER[i] = c]
  ELSE c

\* s.lower()
lower(s) == [i \in 1..Len(s) |-> lower_char(s[i])]

\* s.startswith(p)
startswith(s, p) == Len(s) >= Len(p) /\ SubSeq(s, 1, Len(p)) = p

\* s.lstrip(chars)
lstrip(s, chars) ==
  LET keep == {i \in 1..Len(s) : s[i] \notin chars}
  IN IF keep = {} THEN EMPTY
     ELSE SubSeq(s, CHOOSE i \in keep : \A j \in keep : i <= j, Len(s))

\* s.rstrip(chars)
rstrip(s, chars) ==
  LET keep == {i \in 1..Len(s) : s[i] \notin chars}
  IN IF keep = {} THEN EMPTY
     ELSE SubSeq(s, 1, CHOOSE i \in keep : \A j \in keep : i >= j)

\* strip that forgets the right end
strip_left_only(s, chars) == lstrip(s, chars)

\* s.strip(chars); s.strip() is strip(s, Whitespace)
strip(s, chars) == rstrip(lstrip(s, chars), chars)

\* s.split(sep, 1)[0]
split_first(s, sep) ==
  LET hits == {i \in 1..Len(s) : s[i] = sep}
  IN IF hits = {} THEN s
     ELSE SubSeq(s, 1, (CHOOSE i \in hits : \A j \in hits : i <= j) - 1)

\* s.split(","): the pieces between the commas
split_commas(s) ==
  LET hits == {i \in 1..Len(s) : s[i] = ","}
      n == Cardinality(hits)
      comma(k) == CHOOSE i \in hits : Cardinality({j \in hits : j < i}) = k - 1
      first(k) == IF k = 1 THEN 1 ELSE comma(k - 1) + 1
      last(k) == IF k = n + 1 THEN Len(s) ELSE comma(k) - 1
  IN [k \in 1..(n + 1) |-> SubSeq(s, first(k), last(k))]

\* s[n:]
slice_from(s, n) == SubSeq(s, n + 1, Len(s))

\* s[:n]
slice_to(s, n) == IF Len(s) <= n THEN s ELSE SubSeq(s, 1, n)

\* ------------------------------------------------- the tool-call grammar
\* A Python string literal without escapes: '...' or "..."
is_literal(t) ==
  /\ Len(t) >= 2
  /\ t[1] \in {"\"", "'"}
  /\ t[Len(t)] = t[1]
  /\ \A i \in 2..(Len(t) - 1) : t[i] \notin {t[1], "\\"}

literal_value(t) == SubSeq(t, 2, Len(t) - 1)

\* eval(f"({args_str})") for an args text made of string literals and bare
\* words: [raised, is_tuple, values].  A bare word is an undefined name
\* (NameError); "( )" is the empty tuple; "(x)" is x; "(x, y)" and "(x,)"
\* are tuples.
eval_args(args_str) ==
  LET items == split_commas(args_str)
      item(i) == strip(items[i], Whitespace)
      n == Len(items)
      m == IF n >= 2 /\ item(n) = EMPTY THEN n - 1 ELSE n
  IN IF n = 1 /\ item(1) = EMPTY
     THEN [raised |-> FALSE, is_tuple |-> TRUE, values |-> << >>]
     ELSE IF \A i \in 1..m : is_literal(item(i))
     THEN [raised |-> FALSE, is_tuple |-> (n >= 2),
           values |-> [i \in 1..m |-> literal_value(item(i))]]
     ELSE [raised |-> TRUE, is_tuple |-> FALSE, values |-> << >>]

\* main_app.py:135
is_tool_call(reply) == startswith(lower(reply), MARKER)

\* main_app.py:138
tool_call_of(reply) == strip(slice_from(reply, Len(MARKER)), Whitespace)

\* main_app.py:141
tool_name_of(tool_call) == strip(split_first(tool_call, "("), Whitespace)

\* line 142 without the rstrip(')')
args_str_unclosed(tool_call) ==
  lstrip(strip(slice_from(tool_call, Len(tool_name_of(tool_call))), Whitespace), {"("})

\* main_app.py:142
args_str_of(tool_call) ==
  rstrip(lstrip(strip(slice_from(tool_call, Len(tool_name_of(tool_call))), Whitespace), {"("}), {")"})

\* the fallback of line 157 without its two strip() of quotes
args_of_quotes_kept(args_str) ==
  IF args_str = EMPTY THEN << >>
  ELSE LET parsed == eval_args(args_str)
           cleaned == strip(args_str, Whitespace)
       IN IF ~parsed.raised
          THEN (IF parsed.is_tuple THEN parsed.values ELSE <<parsed.values[1]>>)
          ELSE (IF cleaned # EMPTY THEN <<cleaned>> ELSE << >>)

\* main_app.py:145-159
args_of(args_str) ==
  IF args_str = EMPTY THEN << >>
  ELSE LET parsed == eval_args(args_str)
           cleaned == strip(strip(strip(args_str, Whitespace), {"\""}), {"'"})
       IN IF ~parsed.raised
          THEN (IF parsed.is_tuple THEN parsed.values ELSE <<parsed.values[1]>>)
          ELSE (IF cleaned # EMPTY THEN <<cleaned>> ELSE << >>)

\* the arity checked for each tool name, main_app.py:163-176
Arity ==
  [name \in {READ_FILE, WRITE_FILE, EXECUTE_PYTHON, EXECUTE_SHELL, USE_GEMINI} |->
     IF name = WRITE_FILE THEN 2 ELSE 1]

\* the branches without their len(args) test
tool_matches_any_arity(tool_name, args) == tool_name \in DOMAIN Arity

\* the condition of the five if/elif branches, main_app.py:163-176
tool_matches(tool_name, args) ==
  tool_name \in DOMAIN Arity /\ Len(args) = Arity[tool_name]


\* ------------------------------------------------------ collaborators
\* generate_response without its fallback string: a failed call gives nothing
generate_response_absent(o) == IF o.raised THEN EMPTY ELSE o.content

\* LLMService.generate_response: what ollama.chat did is o = [raised, content];
\* every Exception is caught and replaced by the fixed apology.
generate_response(o) == IF o.raised THEN LLM_ERROR_REPLY ELSE o.content

LLM_FAILS == [raised |-> TRUE, content |-> EMPTY]
LoopOutcomes == {[raised |-> FALSE, content |-> r] : r \in Replies} \cup {LLM_FAILS}
SummaryOutcomes == {[raised |-> FALSE, content |-> s] : s \in Summaries} \cup {LLM_FAILS}

\* "\n".join(docs)
RECURSIVE join(_)
join(docs) ==
  IF docs = << >> THEN EMPTY
  ELSE IF Len(docs) = 1 THEN docs[1]
  ELSE docs[1] \o NEWLINE \o join(Tail(docs))

\* ChromaMemoryService.retrieve_relevant_memories on a store holding docs:
\* at most n_results documents
retrieve_relevant_memories(store) ==
  [i \in 1..(IF Len(store) < N_RESULTS THEN Len(store) ELSE N_RESULTS) |-> store[i].text]

\* add_memory with the two texts exchanged
add_memory_swapped(store, user, assistant) ==
  store \o << [speaker |-> "user", text |-> USER_SAID \o assistant],
              [speaker |-> "assistant", text |-> ASSISTANT_RESPONDED \o user] >>

\* ChromaMemoryService.add_memory
add_memory(store, user, assistant) ==
  store \o << [speaker |-> "user", text |-> USER_SAID \o user],
              [speaker |-> "assistant", text |-> ASSISTANT_RESPONDED \o assistant] >>

\* ChromaMemoryService.add_system_memory
add_system_memory(store, system_note) ==
  Append(store, [speaker |-> "system", text |-> system_note])

\* datetime.now().strftime("%Y%m%d_%H%M%S") at second t of the modelled minute
DATE == <<"2", "0", "2", "5", "0", "1", "0", "1", "_", "0", "0", "0", "0">>
DIGITS == <<"0", "1", "2", "3", "4", "5", "6", "7", "8", "9">>
strftime(t) == DATE \o <<DIGITS[(t \div 10) + 1], DIGITS[(t % 10) + 1]>>

\* os.path.join(self.response_log_dir, f"response_{timestamp}.txt")
response_path(timestamp) == LOG_DIR \o SLASH \o FILE_PREFIX \o timestamp \o FILE_SUFFIX

\* main_app.py:83, the except branch of the summarization
fallback_summary(text) ==
  IF Len(text) > FallbackLen
  THEN slice_to(text, FallbackLen) \o ELLIPSIS
  ELSE text

\* main_app.py:78-83: the try around self.llm.generate_response.  The call
\* returns a string for every outcome of ollama.chat (llm_service.py:44-47),
\* so nothing is raised into the except branch.
summarize(o, text) ==
  LET call == [raised |-> FALSE, value |-> generate_response(o)]
  IN IF call.raised THEN fallback_summary(text) ELSE call.value

\* main_app.py:161-180: result of the dispatch; out is what the tool did
tool_result(tool_name, args, out) ==
  IF tool_matches(tool_name, args)
  THEN (IF out.raised THEN TOOL_EXCEPTION_PREFIX \o out.text \o CLOSE_BRACKET ELSE out.text)
  ELSE UNKNOWN_TOOL_PREFIX \o tool_name \o CLOSE_BRACKET

\* the break two steps late
step_bound_late(n) == n >= MaxSteps + 2

\* main_app.py:186
step_bound_reached(n) == n >= MaxSteps

\* ------------------------------------------------------------- state
VARIABLES
  pc,              \* position of the process
  session,         \* processes started so far
  turns,           \* utterances accepted so far, by this and earlier processes
  clock,           \* last value read from the wall clock
  crash_file,      \* content of crash_info.txt, or NoFile
  files,           \* response_logs: path -> content
  memory,          \* the Chroma collection, in insertion order
  user_input, messages, step_count, assistant_reply, full_response,
  spoken_summary, file_path,
  error,           \* the exception the handler of run() caught
  last_spoken,     \* the last text tts.speak played
  turn_state,      \* state of the turn: spec.md 4.2
  raw_reply,       \* what generate_response returned, before strip()
  llm_calls,       \* generate_response calls of the loop, this turn
  llm_failed,      \* ollama.chat raised in the last of them
  summary_calls,   \* generate_response calls of _muzzle_and_save, this turn
  dispatches,      \* passes through the tool branch, this turn
  last_call,       \* last dispatch: tool name, arguments, whether a tool ran and raised
  summary_failed,  \* ollama.chat raised in the summary call of this turn
  files_written,   \* response files written, this turn
  speak_calls,     \* tts.speak(spoken_summary) calls, this turn
  mem_calls,       \* add_memory calls, this turn
  turn_done,       \* the turn ran through step 7
  turn_log,        \* what _muzzle_and_save returned, every turn so far
  fold_count,      \* startups that folded the crash report now on disk
  boot,            \* what the last startup found and did
  ended_by,        \* why run() returned
  last_heard       \* what the last stt.listen() of this process returned

locals == <<user_input, messages, step_count, assistant_reply, full_response,
            spoken_summary, file_path, error>>
disk == <<crash_file, files, memory>>
ghosts == <<turn_state, raw_reply, llm_calls, llm_failed, summary_calls, dispatches, last_call,
            summary_failed, files_written, speak_calls, mem_calls, turn_done>>
vars == <<pc, session, turns, clock, disk, locals, last_spoken, ghosts,
          turn_log, fold_count, boot, ended_by, last_heard>>

NO_CALL == [tool_name |-> EMPTY, args |-> << >>, invoked |-> FALSE, raised |-> FALSE]
NO_BOOT == [found |-> FALSE, read |-> FALSE, folded |-> FALSE, removed |-> FALSE]

FreshLocals ==
  /\ user_input = EMPTY /\ messages = << >> /\ step_count = 0
  /\ assistant_reply = EMPTY /\ full_response = EMPTY
  /\ spoken_summary = EMPTY /\ file_path = EMPTY /\ error = EMPTY

FreshGhosts ==
  /\ turn_state = "IDLE" /\ raw_reply = EMPTY /\ llm_calls = 0 /\ summary_calls = 0
  /\ dispatches = 0 /\ last_call = NO_CALL /\ files_written = 0
  /\ summary_failed = FALSE /\ llm_failed = FALSE
  /\ speak_calls = 0 /\ mem_calls = 0 /\ turn_done = FALSE

\* The program is started on a clean disk, or after an earlier process
\* crashed in its first turn and left its report (that turn is counted).
Init ==
  /\ pc = "boot" /\ session = 1 /\ clock = 0
  /\ \/ crash_file = NoFile /\ turns = 0
     \/ crash_file = EARLIER_CRASH /\ turns = 1
  /\ files = << >> /\ memory = << >>
  /\ FreshLocals /\ FreshGhosts
  /\ last_spoken = EMPTY /\ turn_log = << >> /\ fold_count = 0
  /\ boot = NO_BOOT /\ ended_by = "none" /\ last_heard = "nothing"

\* -------------------------------------------------------------- startup
\* ConversationalAI.__init__, the crash check: the steps that can fail are
\* the read, add_system_memory and os.remove, all inside one try.
BootOutcomes == {"ok", "read_fails", "fold_fails", "remove_fails"}

\* the try block without its except clause
drain_uncaught(outcome) ==
  [read |-> outcome # "read_fails",
   folded |-> outcome \in {"ok", "remove_fails"},
   removed |-> outcome = "ok",
   raised |-> outcome # "ok"]

\* lines 58-66: how far the try block got; whatever it raised is caught and
\* logged by the except of line 65
drain(outcome) ==
  [read |-> outcome # "read_fails",
   folded |-> outcome \in {"ok", "remove_fails"},
   removed |-> outcome = "ok",
   raised |-> FALSE]

ConversationalAI_init ==
  /\ pc = "boot"
  /\ IF crash_file = NoFile
     THEN /\ boot' = NO_BOOT
          /\ pc' = "run"
          /\ UNCHANGED <<disk, fold_count, ended_by>>
     ELSE \E outcome \in BootOutcomes :
          LET d == drain(outcome)
          IN /\ memory' = IF d.folded
                          THEN add_system_memory(memory, CRASH_NOTE_PREFIX \o crash_file \o CLOSE_PAREN)
                          ELSE memory
             /\ crash_file' = IF d.removed THEN NoFile ELSE crash_file
             /\ fold_count' = IF d.folded THEN fold_count + 1 ELSE fold_count
             /\ boot' = [found |-> TRUE, read |-> d.read, folded |-> d.folded, removed |-> d.removed]
             /\ pc' = IF d.raised THEN "exited" ELSE "run"
             /\ ended_by' = IF d.raised THEN "raised" ELSE ended_by
             /\ UNCHANGED files
  /\ UNCHANGED <<last_heard, session, turns, clock, locals, last_spoken, ghosts, turn_log>>

\* run(), lines 97-98
run_start ==
  /\ pc = "run"
  /\ last_spoken' = SYSTEM_ONLINE
  /\ pc' = "listen"
  /\ UNCHANGED <<last_heard, session, turns, clock, disk, locals, ghosts, turn_log, fold_count, boot, ended_by>>

\* ------------------------------------------------------------- one turn
\* an iteration that goes on after an utterance nobody spoke
skips_nothing(u) == FALSE

\* line 104, "if not user_input": the iteration is skipped
skips(u) == u = EMPTY

\* lines 103-107: an empty utterance loops again, any other starts a turn
listen ==
  /\ pc = "listen"
  /\ \E u \in Utterances :
       /\ last_heard' = IF u = EMPTY THEN "empty" ELSE "utterance"
       /\ IF skips(u)
          THEN UNCHANGED <<pc, session, turns, clock, disk, locals, last_spoken, ghosts,
                           turn_log, fold_count, boot, ended_by>>
          ELSE /\ turns + session <= MaxTurns
               /\ turns' = turns + 1
               /\ user_input' = u
               /\ pc' = "retrieve"
               /\ turn_state' = "RETRIEVING_CONTEXT"
               /\ raw_reply' = EMPTY /\ llm_calls' = 0 /\ summary_calls' = 0
               /\ dispatches' = 0 /\ last_call' = NO_CALL /\ files_written' = 0
               /\ summary_failed' = FALSE /\ llm_failed' = FALSE
               /\ speak_calls' = 0 /\ mem_calls' = 0 /\ turn_done' = FALSE
               /\ UNCHANGED <<session, clock, disk, messages, step_count, assistant_reply,
                              full_response, spoken_summary, file_path, error, last_spoken,
                              turn_log, fold_count, boot, ended_by>>

\* the context with the utterance ahead of the memory context
initial_messages_user_first(memory_context, utterance) ==
  << [role |-> "system", content |-> persona_prompt],
     [role |-> "user", content |-> utterance],
     [role |-> "system", content |-> CONTEXT_PREFIX \o memory_context] >>

\* lines 114-118: a new list of three messages
initial_messages(memory_context, utterance) ==
  << [role |-> "system", content |-> persona_prompt],
     [role |-> "system", content |-> CONTEXT_PREFIX \o memory_context],
     [role |-> "user", content |-> utterance] >>

\* the counter going on from where the turn before left it
step_count_kept(previous) == previous

\* line 122, step_count = 0: whatever the counter held, it holds 0
step_count_reset(previous) == 0

\* lines 110-122: retrieval, the initial context, the loop variables
retrieve ==
  /\ pc = "retrieve"
  /\ \E ok \in BOOLEAN :
       IF ok
       THEN /\ messages' = initial_messages(join(retrieve_relevant_memories(memory)), user_input)
            /\ full_response' = EMPTY
            /\ step_count' = step_count_reset(step_count)
            /\ turn_state' = "THINKING"
            /\ pc' = "think"
            /\ UNCHANGED error
       ELSE /\ error' = E_RETRIEVE
            /\ pc' = "except"
            /\ UNCHANGED <<messages, full_response, step_count, turn_state>>
  /\ UNCHANGED <<last_heard, llm_failed, session, turns, clock, disk, user_input, assistant_reply, spoken_summary,
                 file_path, last_spoken, raw_reply, llm_calls, summary_calls, summary_failed, dispatches,
                 last_call, files_written, speak_calls, mem_calls, turn_done, turn_log,
                 fold_count, boot, ended_by>>

\* lines 127-159 applied to what generate_response returned: the stripped
\* reply, whether it carries the marker, and the parsed tool call
parse_reply(raw) ==
  LET reply == strip(raw, Whitespace)
      tool_call == tool_call_of(reply)
  IN [raw |-> raw,
      assistant_reply |-> reply,
      is_tool_call |-> is_tool_call(reply),
      tool_name |-> IF is_tool_call(reply) THEN tool_name_of(tool_call) ELSE EMPTY,
      args |-> IF is_tool_call(reply) THEN args_of(args_str_of(tool_call)) ELSE << >>]

\* what the loop can receive from generate_response, parsed: one entry for
\* each element of LoopOutcomes
P_HI == parse_reply(generate_response([raised |-> FALSE, content |-> R_HI]))
P_BLANK == parse_reply(generate_response([raised |-> FALSE, content |-> R_BLANK]))
P_READ == parse_reply(generate_response([raised |-> FALSE, content |-> R_READ]))
P_UNKNOWN == parse_reply(generate_response([raised |-> FALSE, content |-> R_UNKNOWN]))
P_ARITY == parse_reply(generate_response([raised |-> FALSE, content |-> R_ARITY]))
\* the reply of the call in which ollama.chat raised
P_FAILS == parse_reply(generate_response(LLM_FAILS))
LoopReplies == {P_HI, P_BLANK, P_READ, P_UNKNOWN, P_ARITY, P_FAILS}

\* lines 123-135 and 191-194: one iteration whose reply is the final answer
loop_final_answer ==
  /\ pc = "think"
  /\ \E r \in LoopReplies :
       /\ ~r.is_tool_call
       /\ raw_reply' = r.raw
       /\ assistant_reply' = r.assistant_reply
       /\ full_response' = r.assistant_reply
       /\ llm_failed' = (r = P_FAILS)
  /\ step_count' = step_count + 1
  /\ llm_calls' = llm_calls + 1
  /\ turn_state' = "FINALIZED"
  /\ pc' = "finalize"
  \* the context is not read after the break: line 114 builds a new one
  /\ messages' = << >>
  /\ UNCHANGED <<last_heard, session, turns, clock, disk, user_input, spoken_summary,
                 file_path, error, last_spoken, summary_calls, summary_failed, dispatches, last_call,
                 files_written, speak_calls, mem_calls, turn_done, turn_log, fold_count,
                 boot, ended_by>>

\* the tool result put in front of the context
with_tool_result_in_front(context, result) ==
  <<[role |-> "system", content |-> TOOL_OUTPUT_PREFIX \o result]>> \o context

\* line 184, messages.append: one system message holding the tool result
with_tool_result(context, result) ==
  Append(context, [role |-> "system", content |-> TOOL_OUTPUT_PREFIX \o result])

\* lines 123-184: one iteration whose reply is a tool call, up to the append
loop_tool_step ==
  /\ pc = "think"
  /\ \E r \in LoopReplies :
       LET tool_name == r.tool_name
           args == r.args
       IN /\ r.is_tool_call
          /\ raw_reply' = r.raw
          /\ assistant_reply' = r.assistant_reply
          /\ llm_failed' = (r = P_FAILS)
          /\ \E out \in IF tool_matches(tool_name, args) THEN ToolOutcomes
                        ELSE {[raised |-> FALSE, text |-> EMPTY]} :
               /\ messages' = with_tool_result(messages, tool_result(tool_name, args, out))
               /\ last_call' = [tool_name |-> tool_name, args |-> args,
                                invoked |-> tool_matches(tool_name, args),
                                raised |-> out.raised]
  /\ step_count' = step_count + 1
  /\ llm_calls' = llm_calls + 1
  /\ dispatches' = dispatches + 1
  /\ turn_state' = "TOOL_DISPATCH"
  /\ pc' = "step_bound"
  /\ UNCHANGED <<last_heard, session, turns, clock, disk, user_input, full_response, spoken_summary,
                 file_path, error, last_spoken, summary_calls, summary_failed, files_written, speak_calls,
                 mem_calls, turn_done, turn_log, fold_count, boot, ended_by>>

\* lines 186-190: break when the step bound is reached, else continue
loop_step_bound ==
  /\ pc = "step_bound"
  /\ IF step_bound_reached(step_count)
     THEN /\ turn_state' = "ABORTED"
          /\ pc' = "finalize"
          \* the context is not read after the break: line 114 builds a new one
          /\ messages' = << >>
     ELSE /\ turn_state' = "THINKING"
          /\ pc' = "think"
          /\ UNCHANGED messages
  /\ UNCHANGED <<last_heard, llm_failed, session, turns, clock, disk, user_input, step_count, assistant_reply,
                 full_response, spoken_summary, file_path, error, last_spoken, raw_reply,
                 llm_calls, summary_calls, summary_failed, dispatches, last_call, files_written,
                 speak_calls, mem_calls, turn_done, turn_log, fold_count, boot, ended_by>>

\* what open(file_path, 'w') and f.write(full_response) can do, lines 88-89:
\* a failing open leaves the directory alone, a failing write leaves the
\* file created or truncated by the open
WriteOutcomes == {"ok", "open_fails", "write_fails"}

\* lines 88-89 inside a try that logs the failure and goes on
write_raises_swallowed(written) == FALSE

\* lines 88-89 are in no try: a failing open or write raises out of
\* _muzzle_and_save and out of line 197
write_raises(written) == written # "ok"

\* line 197, _muzzle_and_save(full_response): the summary, then the file
muzzle_and_save ==
  /\ pc = "finalize"
  /\ summary_calls' = summary_calls + 1
  /\ \E o \in SummaryOutcomes, now \in {t \in {clock, clock + 1} : t <= MaxClock},
        written \in WriteOutcomes :
       LET summary == summarize(o, full_response)
           path == response_path(strftime(now))
       IN /\ clock' = now
          /\ summary_failed' = o.raised
          /\ files' = IF written = "open_fails" THEN files
                      ELSE [p \in DOMAIN files \cup {path} |->
                              IF p # path THEN files[p]
                              ELSE IF written = "ok" THEN full_response ELSE EMPTY]
          /\ files_written' = IF written = "ok" THEN files_written + 1 ELSE files_written
          /\ IF write_raises(written)
             THEN /\ error' = E_WRITE
                  /\ pc' = "except"
                  /\ UNCHANGED <<spoken_summary, file_path, turn_log>>
             ELSE /\ spoken_summary' = summary
                  /\ file_path' = path
                  /\ turn_log' = Append(turn_log,
                       [turn_state |-> turn_state, user_input |-> user_input,
                        full_answer |-> full_response, spoken_summary |-> summary,
                        artifact_path |-> path])
                  /\ pc' = "speak"
                  /\ UNCHANGED error
  /\ UNCHANGED <<last_heard, llm_failed, session, turns, crash_file, memory, user_input, messages, step_count,
                 assistant_reply, raw_reply, last_call, full_response,
                 last_spoken, turn_state, llm_calls, dispatches, speak_calls, mem_calls,
                 turn_done, fold_count, boot, ended_by>>

\* TextToSpeechService.speak: nothing is played for an empty text
speak(text) == IF text = EMPTY THEN last_spoken ELSE text

\* line 200
speak_summary ==
  /\ pc = "speak"
  /\ last_spoken' = speak(spoken_summary)
  /\ speak_calls' = speak_calls + 1
  /\ pc' = "add_memory"
  /\ UNCHANGED <<last_heard, llm_failed, session, turns, clock, disk, locals, turn_state, raw_reply, llm_calls,
                 summary_calls, summary_failed, dispatches, last_call, files_written, mem_calls, turn_done,
                 turn_log, fold_count, boot, ended_by>>

\* line 203
persist_exchange ==
  /\ pc = "add_memory"
  /\ mem_calls' = mem_calls + 1
  /\ \E ok \in BOOLEAN :
       IF ok
       THEN /\ memory' = add_memory(memory, user_input, full_response)
            /\ pc' = "add_system_memory"
            /\ UNCHANGED error
       ELSE /\ error' = E_ADD_MEMORY
            /\ pc' = "except"
            /\ UNCHANGED memory
  /\ UNCHANGED <<last_heard, llm_failed, session, turns, clock, crash_file, files, user_input, messages, step_count,
                 assistant_reply, full_response, spoken_summary, file_path, last_spoken,
                 turn_state, raw_reply, llm_calls, summary_calls, summary_failed, dispatches, last_call,
                 files_written, speak_calls, turn_done, turn_log, fold_count, boot, ended_by>>

\* lines 204-206
persist_reflection ==
  /\ pc = "add_system_memory"
  /\ \E ok \in BOOLEAN :
       IF ok
       THEN /\ memory' = add_system_memory(memory,
                           REFLECTION_PREFIX \o file_path \o REFLECTION_SUFFIX)
            /\ turn_done' = TRUE
            /\ pc' = "listen"
            /\ UNCHANGED error
       ELSE /\ error' = E_ADD_SYSTEM
            /\ pc' = "except"
            /\ UNCHANGED <<memory, turn_done>>
  /\ UNCHANGED <<last_heard, llm_failed, session, turns, clock, crash_file, files, user_input, messages, step_count,
                 assistant_reply, full_response, spoken_summary, file_path, last_spoken,
                 turn_state, raw_reply, llm_calls, summary_calls, summary_failed, dispatches, last_call,
                 files_written, speak_calls, mem_calls, turn_log, fold_count, boot, ended_by>>

\* ------------------------------------------------------- the two handlers
InTry == {"listen", "retrieve", "think", "step_bound", "finalize", "speak", "add_memory", "add_system_memory"}

KEYBOARD_INTERRUPT == <<"KeyboardInterrupt">>

\* the handlers with "except Exception" widened to every exception and
\* listed first
handler_any_first(raised) == "error"

\* the except clauses of lines 210 and 215, in their order, for what was
\* raised inside the try: KeyboardInterrupt is not an Exception
handler_of(raised) == IF raised = KEYBOARD_INTERRUPT THEN "interrupt" ELSE "error"

\* lines 210-213: KeyboardInterrupt raised anywhere inside the try
keyboard_interrupt ==
  /\ pc \in InTry
  /\ IF handler_of(KEYBOARD_INTERRUPT) = "interrupt"
     THEN /\ last_spoken' = GOODBYE
          /\ ended_by' = "interrupt"
          /\ pc' = "exited"
          \* run() returns and the process ends: its variables are gone
          /\ user_input' = EMPTY /\ messages' = << >> /\ step_count' = 0
          /\ assistant_reply' = EMPTY /\ full_response' = EMPTY
          /\ spoken_summary' = EMPTY /\ file_path' = EMPTY /\ error' = EMPTY
          /\ turn_state' = "IDLE" /\ raw_reply' = EMPTY /\ llm_calls' = 0 /\ summary_calls' = 0
          /\ dispatches' = 0 /\ last_call' = NO_CALL /\ files_written' = 0
          /\ summary_failed' = FALSE /\ llm_failed' = FALSE
          /\ speak_calls' = 0 /\ mem_calls' = 0 /\ turn_done' = FALSE
     ELSE /\ error' = KEYBOARD_INTERRUPT
          /\ pc' = "except"
          /\ UNCHANGED <<user_input, messages, step_count, assistant_reply, full_response,
                         spoken_summary, file_path, last_spoken, ghosts, ended_by>>
  /\ last_heard' = "nothing"
  /\ UNCHANGED <<session, turns, clock, disk, turn_log, fold_count, boot>>

\* lines 215-220: the apology
except_speak ==
  /\ pc = "except"
  /\ last_spoken' = APOLOGY
  /\ pc' = "crash_write"
  /\ UNCHANGED <<last_heard, session, turns, clock, disk, locals, ghosts, turn_log, fold_count, boot, ended_by>>

\* the file opened with mode "a": the text is added to what is there
open_a_write(content, text) == IF content = NoFile THEN text ELSE content \o text

\* lines 222-223, open("crash_info.txt", "w") and cf.write(text): whatever
\* the file held, it holds text alone
open_w_write(content, text) == text

\* lines 222-225: the crash file, then break
except_write ==
  /\ pc = "crash_write"
  /\ \E ok \in BOOLEAN :
       IF ok
       THEN /\ crash_file' = open_w_write(crash_file, error \o NEWLINE \o TRACEBACK)
            /\ fold_count' = 0
            /\ ended_by' = "error"
       \* the open or the write raises inside the handler: run() is left
       \* by that exception, not by the break
       ELSE /\ ended_by' = "raised"
            /\ UNCHANGED <<crash_file, fold_count>>
  /\ pc' = "exited"
  \* run() returns and the process ends: its variables are gone
  /\ user_input' = EMPTY /\ messages' = << >> /\ step_count' = 0
  /\ assistant_reply' = EMPTY /\ full_response' = EMPTY
  /\ spoken_summary' = EMPTY /\ file_path' = EMPTY /\ error' = EMPTY
  /\ turn_state' = "IDLE" /\ raw_reply' = EMPTY /\ llm_calls' = 0 /\ summary_calls' = 0
  /\ dispatches' = 0 /\ last_call' = NO_CALL /\ files_written' = 0
  /\ summary_failed' = FALSE /\ llm_failed' = FALSE
  /\ speak_calls' = 0 /\ mem_calls' = 0 /\ turn_done' = FALSE
  /\ last_heard' = "nothing"
  /\ UNCHANGED <<session, turns, clock, files, memory, last_spoken, turn_log, boot>>

\* lines 227-229: the supervisor starts the program again
restart ==
  /\ pc = "exited"
  /\ session < MaxSessions
  /\ session' = session + 1
  /\ pc' = "boot"
  /\ last_spoken' = EMPTY
  /\ ended_by' = "none"
  /\ UNCHANGED <<turns, clock, disk, locals, ghosts, turn_log, fold_count, boot, last_heard>>

Next ==
  \/ ConversationalAI_init
  \/ run_start
  \/ listen
  \/ retrieve
  \/ loop_final_answer
  \/ loop_tool_step
  \/ loop_step_bound
  \/ muzzle_and_save
  \/ speak_summary
  \/ persist_exchange
  \/ persist_reflection
  \/ keyboard_interrupt
  \/ except_speak
  \/ except_write
  \/ restart

Spec == Init /\ [][Next]_vars

\* ------------------------------------------------ the parser on its own
\* replies of the form TOOL: name(args): the marker as the model may write
\* it, a tool name, and an argument text
M_UPPER == <<"T", "O", "O", "L", ":", " ">>
M_LOWER == <<"t", "o", "o", "l", ":">>
M_MIXED == <<" ", "T", "o", "o", "l", ":", " ">>
Markers == {M_UPPER, M_LOWER, M_MIXED}
NOPE == <<"n", "o", "p", "e">>
Names == {READ_FILE, WRITE_FILE, NOPE}
A_NONE == << >>
A_EMPTY == <<"(", ")">>
A_BLANK == <<"(", " ", ")">>
A_ONE_DQ == <<"(", "\"", "a", "\"", ")">>
A_ONE_SQ == <<"(", "'", "a", "'", ")">>
A_ONE_SPACED == <<"(", " ", "\"", "a", "\"", " ", ")">>
A_ONE_EMPTY == <<"(", "\"", "\"", ")">>
A_TWO_DQ == <<"(", "\"", "a", "\"", ",", " ", "\"", "b", "\"", ")">>
A_TWO_SQ == <<"(", "'", "a", "'", ",", "'", "b", "'", ")">>
A_WORD == <<"(", "a", ")">>
A_WORDS == <<"(", "a", ",", " ", "b", ")">>
A_UNCLOSED == <<"(", "\"", "a", ")">>
A_QUOTE == <<"(", "\"", ")">>
A_MIXED == <<"(", "\"", "a", "\"", ",", " ", "b", ")">>
ArgTexts == {A_NONE, A_EMPTY, A_BLANK, A_ONE_DQ, A_ONE_SQ, A_ONE_SPACED, A_ONE_EMPTY, A_TWO_DQ, A_TWO_SQ, A_WORD, A_WORDS, A_UNCLOSED, A_QUOTE, A_MIXED}
ParserInputs == {m \o n \o a : m \in Markers, n \in Names, a \in ArgTexts}

\* generate_response has returned one such reply
ParseInit ==
  /\ pc = "parse" /\ raw_reply \in ParserInputs
  /\ session = 1 /\ turns = 0 /\ clock = 0
  /\ crash_file = NoFile /\ files = << >> /\ memory = << >>
  /\ FreshLocals
  /\ turn_state = "THINKING" /\ llm_calls = 1 /\ summary_calls = 0
  /\ dispatches = 0 /\ last_call = NO_CALL /\ files_written = 0
  /\ summary_failed = FALSE /\ llm_failed = FALSE
  /\ speak_calls = 0 /\ mem_calls = 0 /\ turn_done = FALSE
  /\ last_spoken = EMPTY /\ turn_log = << >> /\ fold_count = 0
  /\ boot = NO_BOOT /\ ended_by = "none" /\ last_heard = "utterance"

\* lines 131-159: the reply is stripped, recognised and parsed
parse ==
  /\ pc = "parse"
  /\ LET r == parse_reply(raw_reply)
     IN /\ assistant_reply' = r.assistant_reply
        /\ turn_state' = IF r.is_tool_call THEN "TOOL_DISPATCH" ELSE "FINALIZED"
        /\ last_call' = [tool_name |-> r.tool_name, args |-> r.args,
                         invoked |-> FALSE, raised |-> FALSE]
  /\ pc' = "parsed"
  /\ UNCHANGED <<last_heard, llm_failed, session, turns, clock, disk, user_input, messages, step_count,
                 full_response, spoken_summary, file_path, error, last_spoken, raw_reply,
                 llm_calls, summary_calls, summary_failed, dispatches, files_written,
                 speak_calls, mem_calls, turn_done, turn_log, fold_count, boot, ended_by>>

ParseNext == parse

ParseSpec == ParseInit /\ [][ParseNext]_vars

\* --------------------------------------------- the tool loop on its own
\* What the turn before has left in the variables of run() when the next
\* utterance is accepted: nothing in the first turn; after a turn that was
\* FINALIZED by its k-th reply or ABORTED by its fifth, the counter, the
\* last reply and the answer of that turn, and its outcome.
A_HI == strip(R_HI, Whitespace)
FIRST_PATH == response_path(strftime(0))
NO_TURN == [step_count |-> 0, assistant_reply |-> EMPTY, full_response |-> EMPTY, turn_state |-> "IDLE"]
AFTER_ABORTED == [step_count |-> MaxSteps, assistant_reply |-> R_READ, full_response |-> EMPTY, turn_state |-> "ABORTED"]
AfterFinalized == {[step_count |-> k, assistant_reply |-> A_HI, full_response |-> A_HI, turn_state |-> "FINALIZED"] : k \in 1..MaxSteps}
EarlierTurns == {NO_TURN, AFTER_ABORTED} \cup AfterFinalized

\* line 107: an utterance has been accepted, in the first turn of the
\* process or after an earlier turn that ran through step 7
LoopInit ==
  /\ pc = "retrieve" /\ session = 1 /\ clock = 0
  /\ user_input = HELLO /\ messages = << >> /\ error = EMPTY
  /\ crash_file = NoFile /\ fold_count = 0 /\ boot = NO_BOOT
  /\ ended_by = "none" /\ last_heard = "utterance"
  /\ turn_state = "RETRIEVING_CONTEXT" /\ raw_reply = EMPTY /\ llm_calls = 0
  /\ summary_calls = 0 /\ dispatches = 0 /\ last_call = NO_CALL /\ files_written = 0
  /\ summary_failed = FALSE /\ llm_failed = FALSE
  /\ speak_calls = 0 /\ mem_calls = 0 /\ turn_done = FALSE
  /\ \E e \in EarlierTurns :
       /\ step_count = e.step_count
       /\ assistant_reply = e.assistant_reply
       /\ full_response = e.full_response
       /\ IF e = NO_TURN
          THEN /\ turns = 1
               /\ spoken_summary = EMPTY /\ file_path = EMPTY
               /\ last_spoken = SYSTEM_ONLINE
               /\ files = << >> /\ memory = << >> /\ turn_log = << >>
          ELSE /\ turns = 2
               /\ spoken_summary = SUMMARY /\ file_path = FIRST_PATH
               /\ last_spoken = SUMMARY
               /\ files = [q \in {FIRST_PATH} |-> e.full_response]
               /\ memory = add_system_memory(add_memory(<< >>, HELLO, e.full_response),
                                             REFLECTION_PREFIX \o FIRST_PATH \o REFLECTION_SUFFIX)
               /\ turn_log = <<[turn_state |-> e.turn_state, user_input |-> HELLO,
                                full_answer |-> e.full_response, spoken_summary |-> SUMMARY,
                                artifact_path |-> FIRST_PATH]>>

\* lines 110-194 of one turn, and the interrupt
LoopNext ==
  \/ retrieve
  \/ loop_final_answer
  \/ loop_tool_step
  \/ loop_step_bound
  \/ keyboard_interrupt

\* Every collaborator call of the tool loop returns: the inference call and
\* the tool of lines 127-184 come back, and the test of line 186 is made.
LoopFairness ==
  /\ WF_vars(loop_final_answer \/ loop_tool_step)
  /\ WF_vars(loop_step_bound)

LoopSpec == LoopInit /\ [][LoopNext]_vars /\ LoopFairness

\* ======================================================== the claims
\* C1: in one turn the tool loop calls generate_response at most
\* MaxSteps + 1 = 6 times, whatever the replies are, also when every reply
\* is a tool call.
C1_InferenceCallsBounded == llm_calls <= MaxSteps + 1

\* a turn whose every reply was a tool call has left the loop
C1_Witness ==
  /\ turn_state = "ABORTED"
  /\ dispatches = MaxSteps
  /\ llm_calls = dispatches

\* C2: a turn whose every reply is a tool call ends ABORTED after exactly
\* MaxSteps dispatches, and for that turn no summary call is made and no
\* response file is written.
C2_AbortedNeverFinalizes ==
  turn_state = "ABORTED" =>
    /\ dispatches = MaxSteps
    /\ summary_calls = 0
    /\ files_written = 0

\* what the caller of a turn can observe of its outcome: the answer given
\* to finalization, what is spoken, and what goes to memory
Observable(outcome) ==
  [full_answer |-> outcome.full_answer,
   spoken_summary |-> outcome.spoken_summary,
   persisted |-> <<outcome.user_input, outcome.full_answer>>]

\* C3: an ABORTED turn and a turn FINALIZED with an empty answer never have
\* the same observable outcome.
C3_AbortedDistinguishable ==
  \A i, j \in DOMAIN turn_log :
    (turn_log[i].turn_state = "ABORTED" /\ turn_log[j].turn_state = "FINALIZED")
      => Observable(turn_log[i]) # Observable(turn_log[j])


\* what "begins with the marker TOOL:, whitespace and case ignored" means
HasMarker(raw) ==
  \E i \in 1..Len(raw) :
    /\ \A j \in 1..(i - 1) : raw[j] \in Whitespace
    /\ i + 4 <= Len(raw)
    /\ raw[i] \in {"t", "T"} /\ raw[i + 1] \in {"o", "O"} /\ raw[i + 2] \in {"o", "O"}
    /\ raw[i + 3] \in {"l", "L"} /\ raw[i + 4] = ":"

\* t is raw without its leading and trailing whitespace
IsTrimOf(t, raw) ==
  \E a \in 1..(Len(raw) + 1), b \in 0..Len(raw) :
    /\ t = SubSeq(raw, a, b)
    /\ \A j \in 1..(a - 1) : raw[j] \in Whitespace
    /\ \A j \in (b + 1)..Len(raw) : raw[j] \in Whitespace
    /\ t # EMPTY => (t[1] \notin Whitespace /\ t[Len(t)] \notin Whitespace)

\* C4: a reply that does not begin with the marker (also an empty or
\* whitespace-only one) dispatches no tool and takes the turn straight to
\* FINALIZED with full_answer equal to the trimmed reply.
C4_NonToolReplyFinalizes ==
  [][ (pc = "think" /\ llm_calls' = llm_calls + 1 /\ ~HasMarker(raw_reply'))
        => /\ turn_state' = "FINALIZED"
           /\ pc' = "finalize"
           /\ dispatches' = dispatches
           /\ last_call' = last_call
           /\ IsTrimOf(full_response', raw_reply') ]_vars

\* a whitespace-only reply has been taken as the empty final answer
C4_Witness ==
  /\ pc = "finalize"
  /\ turn_state = "FINALIZED"
  /\ raw_reply = R_BLANK
  /\ full_response = EMPTY
  /\ dispatches = 0

\* the arities of spec.md 4.2
RefArity ==
  (READ_FILE :> 1) @@ (WRITE_FILE :> 2) @@ (EXECUTE_PYTHON :> 1) @@
  (EXECUTE_SHELL :> 1) @@ (USE_GEMINI :> 1)

UnknownOrWrongArity(call) ==
  \/ call.tool_name \notin DOMAIN RefArity
  \/ Len(call.args) # RefArity[call.tool_name]

ExpectedCall(raw) ==
  CASE raw = R_READ -> [tool_name |-> READ_FILE, args |-> << <<"a">> >>]
    [] raw = R_UNKNOWN -> [tool_name |-> <<"n", "o", "p", "e">>, args |-> << >>]
    [] raw = R_ARITY -> [tool_name |-> WRITE_FILE, args |-> << <<"a">> >>]

\* the final answer each other reply stands for, read off by hand
ExpectedAnswer(raw) ==
  CASE raw = R_HI -> <<"H", "i", " ", "t", "h", "e", "r", "e", ".">>
    [] raw = R_BLANK -> EMPTY
    [] raw = LLM_ERROR_REPLY -> LLM_ERROR_REPLY

\* C6: a turn of k tool-call replies (k <= 4) and then another reply makes
\* exactly k dispatches, each with the parsed name and arguments, adds
\* exactly k tool-result messages to the context, calls inference k + 1
\* times in the loop and ends with the last reply as its answer.
C6_ToolStepsThenAnswer ==
  /\ pc \in {"think", "step_bound"} =>
       /\ Len(messages) = 3 + dispatches
       /\ llm_calls = dispatches
       /\ \A i \in 4..Len(messages) :
            /\ messages[i].role = "system"
            /\ startswith(messages[i].content, TOOL_OUTPUT_PREFIX)
  /\ pc = "step_bound" =>
       /\ raw_reply \in ToolReplies
       /\ last_call.tool_name = ExpectedCall(raw_reply).tool_name
       /\ last_call.args = ExpectedCall(raw_reply).args
  /\ (pc = "finalize" /\ turn_state = "FINALIZED") =>
       /\ dispatches <= MaxSteps - 1
       /\ llm_calls = dispatches + 1
       /\ raw_reply \notin ToolReplies
       /\ full_response = ExpectedAnswer(raw_reply)

\* four tool steps, then an answer
C6_Witness ==
  /\ pc = "finalize"
  /\ turn_state = "FINALIZED"
  /\ dispatches = MaxSteps - 1
  /\ llm_calls = MaxSteps
  /\ full_response # EMPTY


\* C7: a turn that reaches FINALIZED with utterance u and answer a writes
\* exactly one response file, holding exactly a, and makes exactly one
\* add_memory(u, a) call, after the file is written and the summary spoken.
C7_OneFileOneExchange ==
  /\ files_written <= 1
  /\ mem_calls <= 1
  /\ mem_calls = 1 =>
       /\ files_written = 1
       /\ speak_calls = 1
       /\ file_path \in DOMAIN files
       /\ files[file_path] = full_response
  /\ (turn_done /\ turn_state = "FINALIZED") =>
       /\ files_written = 1
       /\ mem_calls = 1
       /\ Len(memory) >= 3
       /\ memory[Len(memory) - 2] =
            [speaker |-> "user", text |-> USER_SAID \o user_input]
       /\ memory[Len(memory) - 1] =
            [speaker |-> "assistant", text |-> ASSISTANT_RESPONDED \o full_response]

\* a finalized turn with a non-empty answer has run through step 7
C7_Witness ==
  /\ turn_done
  /\ turn_state = "FINALIZED"
  /\ user_input = HELLO
  /\ full_response # EMPTY

\* C8: two turns that finalize in the same second get distinct artifact
\* paths, and the file at the artifact_path of every TurnOutcome holds its
\* full_answer in every later state.
C8_ArtifactsKept ==
  /\ \A i \in DOMAIN turn_log :
       /\ turn_log[i].artifact_path \in DOMAIN files
       /\ files[turn_log[i].artifact_path] = turn_log[i].full_answer
  /\ \A i, j \in DOMAIN turn_log :
       i # j => turn_log[i].artifact_path # turn_log[j].artifact_path

\* the fallback of spec.md 4.3
RefFallback(text) ==
  IF Len(text) <= 150 THEN text ELSE SubSeq(text, 1, 150) \o <<".", ".", ".">>

\* C9: when the summary call fails, the spoken summary is the fallback:
\* full_answer if it has at most 150 characters, else its first 150
\* characters and the ellipsis.
C9_FallbackOnFailure ==
  (pc = "speak" /\ summary_failed) => spoken_summary = RefFallback(full_response)

\* the startup of this process is over and run() has not yet written a crash file
Started == pc \notin {"boot", "exited"}

\* C10: a crash report is consumed exactly once: the startup that folds it
\* into memory leaves no crash file, so no later startup folds it again.
C10_CrashConsumedOnce ==
  /\ fold_count <= 1
  /\ (Started /\ boot.folded) => crash_file = NoFile

\* C11: a startup that read the crash file has deleted it, also when the
\* fold or the deletion failed: no report survives a startup that read it.
C11_ReadImpliesDeleted ==
  (Started /\ boot.read) => (boot.removed /\ crash_file = NoFile)

\* C12: the crash check of a startup is never fatal: whatever it finds and
\* whichever of its steps fails, the startup step ends in run(), which goes
\* on to listen; the check is made once per process, in the startup step,
\* before any turn of that process.
C12_DrainNeverFatal ==
  [][ /\ pc = "boot" =>
           /\ pc' = "run"
           /\ ended_by' = "none"
           /\ turn_state' = "IDLE" /\ turns' = turns
      /\ pc = "run" => pc' = "listen"
      /\ pc' = "boot" => (pc = "exited" /\ session' = session + 1)
      /\ (boot' # boot \/ fold_count' > fold_count
            \/ (crash_file # NoFile /\ crash_file' = NoFile)) => pc = "boot" ]_vars

\* a turn is being processed after a startup that could not read the file
C12_Witness ==
  /\ pc = "retrieve"
  /\ boot.found /\ ~boot.read
  /\ crash_file # NoFile

\* the steps of a turn that can raise an exception other than the interrupt
Raising == {"retrieve", "finalize", "add_memory", "add_system_memory"}

\* C13: an exception that escapes a turn goes to the handler of run(); the
\* handler leaves the crash file holding exactly the error description, a
\* newline and the trace, whatever it held before, and the process ends: no
\* step of the failed turn runs again and no utterance is accepted.  (When
\* writing the report itself raises, the process ends all the same and the
\* file is as it was.)
C13_CrashRecordedThenExit ==
  [][ /\ (error' # error /\ error' # EMPTY) => (pc \in Raising /\ pc' = "except")
      /\ pc = "except" =>
           /\ pc' = "crash_write"
           /\ turns' = turns /\ turn_state' = turn_state /\ error' = error
      /\ pc = "crash_write" =>
           /\ pc' = "exited"
           /\ turns' = turns /\ user_input' = EMPTY
           /\ ended_by' \in {"error", "raised"}
           /\ ended_by' = "error" => crash_file' = error \o <<"\n">> \o TRACEBACK
           /\ ended_by' = "raised" => crash_file' = crash_file
      /\ pc = "exited" => (pc' = "boot" /\ session' = session + 1 /\ turns' = turns) ]_vars

\* a crash was recorded over the report that the startup had left on disk
C13_Witness ==
  /\ pc = "exited" /\ ended_by = "error"
  /\ boot.found /\ ~boot.removed
  /\ crash_file = E_ADD_MEMORY \o <<"\n">> \o TRACEBACK

\* C14: the interrupt is honoured only between turns: the step that ends the
\* session by the interrupt is taken while the loop is listening, never from
\* inside a turn whose model call, tool call, finalization or persistence
\* is still to be done.
C14_InterruptBetweenTurns ==
  [][ (ended_by' = "interrupt" /\ ended_by # "interrupt") => pc = "listen" ]_vars

\* C15: the user interrupt is answered by the goodbye and a normal end of
\* the session: the interrupt never reaches the error handler (no apology,
\* no crash report), the step that honours it leaves the crash file, the
\* memory and the response files alone, and the process accepts no further
\* utterance.
C15_InterruptEndsQuietly ==
  [][ /\ error' # <<"KeyboardInterrupt">>
      /\ (ended_by' = "interrupt" /\ ended_by # "interrupt") =>
           /\ last_spoken' = GOODBYE
           /\ pc' = "exited"
           /\ crash_file' = crash_file /\ memory' = memory /\ files' = files
           /\ turns' = turns
      /\ (pc = "exited" /\ ended_by = "interrupt") =>
           /\ last_spoken = GOODBYE
           /\ pc' = "boot" /\ session' = session + 1 /\ turns' = turns ]_vars

\* the session was ended by the interrupt while it was listening for the
\* second utterance
C15_Witness ==
  /\ pc = "exited" /\ ended_by = "interrupt"
  /\ last_spoken = GOODBYE
  /\ Len(turn_log) = 1
  /\ crash_file = NoFile

\* C16: when listen() returns an empty utterance the iteration does nothing
\* and the loop listens again: no retrieval, no inference call, no dispatch,
\* no response file, no speech, no memory write; a turn is only ever
\* started for a non-empty utterance.
C16_EmptyUtteranceSkipped ==
  [][ /\ (pc = "listen" /\ last_heard' = "empty") =>
           /\ pc' = "listen"
           /\ turns' = turns /\ turn_state' = turn_state
           /\ messages' = messages
           /\ llm_calls' = llm_calls /\ summary_calls' = summary_calls
           /\ dispatches' = dispatches
           /\ files' = files /\ files_written' = files_written
           /\ last_spoken' = last_spoken /\ speak_calls' = speak_calls
           /\ memory' = memory /\ mem_calls' = mem_calls
           /\ crash_file' = crash_file /\ turn_log' = turn_log
      /\ pc' \in {"retrieve", "think"} => user_input' # EMPTY ]_vars

\* an empty utterance was heard after a completed turn
C16_Witness ==
  /\ pc = "listen"
  /\ last_heard = "empty"
  /\ turn_done /\ mem_calls = 1

\* C17: a finalization that does not get the response file written raises
\* to the handler of run(): the error is not swallowed, the summary of that
\* turn is never spoken, nothing of the turn goes to memory, and the handler
\* records the crash and ends the session.
C17_WriteFailurePropagates ==
  [][ /\ (summary_calls' = summary_calls + 1 /\ files_written' = files_written) =>
           /\ pc' = "except" /\ error' = E_WRITE
           /\ spoken_summary' = spoken_summary
           /\ turn_log' = turn_log
      /\ error = E_WRITE =>
           /\ pc \in {"except", "crash_write"}
           /\ speak_calls = 0 /\ mem_calls = 0 /\ ~turn_done
           /\ last_spoken' \in {last_spoken, APOLOGY}
           /\ memory' = memory
           /\ pc' \in {pc, "crash_write", "exited"}
           /\ (pc' = "exited" /\ ended_by' = "error") =>
                 crash_file' = E_WRITE \o <<"\n">> \o TRACEBACK ]_vars

\* the session has ended on the crash report of a failed response-file
\* write in its first turn
C17_Witness ==
  /\ pc = "exited" /\ ended_by = "error"
  /\ crash_file = E_WRITE \o <<"\n">> \o TRACEBACK
  /\ turn_log = << >>

\* the reference for the argument texts, written by hand: what kind of text
\* it is, the values of its string literals, and for a text that is no
\* literal tuple the text without its parentheses and surrounding quotes
ArgCases ==
  { [text |-> A_NONE, kind |-> "none", values |-> << >>, bare |-> EMPTY],
    [text |-> A_EMPTY, kind |-> "none", values |-> << >>, bare |-> EMPTY],
    [text |-> A_BLANK, kind |-> "none", values |-> << >>, bare |-> EMPTY],
    [text |-> A_ONE_DQ, kind |-> "one", values |-> << <<"a">> >>, bare |-> EMPTY],
    [text |-> A_ONE_SQ, kind |-> "one", values |-> << <<"a">> >>, bare |-> EMPTY],
    [text |-> A_ONE_SPACED, kind |-> "one", values |-> << <<"a">> >>, bare |-> EMPTY],
    [text |-> A_ONE_EMPTY, kind |-> "one", values |-> << << >> >>, bare |-> EMPTY],
    [text |-> A_TWO_DQ, kind |-> "two", values |-> << <<"a">>, <<"b">> >>, bare |-> EMPTY],
    [text |-> A_TWO_SQ, kind |-> "two", values |-> << <<"a">>, <<"b">> >>, bare |-> EMPTY],
    [text |-> A_WORD, kind |-> "malformed", values |-> << >>, bare |-> <<"a">>],
    [text |-> A_WORDS, kind |-> "malformed", values |-> << >>, bare |-> <<"a", ",", " ", "b">>],
    [text |-> A_UNCLOSED, kind |-> "malformed", values |-> << >>, bare |-> <<"a">>],
    [text |-> A_QUOTE, kind |-> "malformed", values |-> << >>, bare |-> EMPTY],
    [text |-> A_MIXED, kind |-> "malformed", values |-> << >>, bare |-> <<"a", "\"", ",", " ", "b">>] }

\* the name and the argument list the parser has extracted are those of
\* the reference; for_nothing is the list expected of a text that is no
\* literal tuple and of which nothing is left without its quotes
ParsedAsReference(for_nothing) ==
  pc = "parsed" =>
    /\ turn_state = "TOOL_DISPATCH"
    /\ \E m \in Markers, n \in Names, c \in ArgCases : raw_reply = m \o n \o c.text
    /\ \A m \in Markers, n \in Names, c \in ArgCases :
         raw_reply = m \o n \o c.text =>
           /\ last_call.tool_name = n
           /\ c.kind = "none" => last_call.args = << >>
           /\ c.kind = "one" => (Len(last_call.args) = 1 /\ last_call.args = c.values)
           /\ c.kind = "two" => (Len(last_call.args) = 2 /\ last_call.args = c.values)
           /\ c.kind = "malformed" =>
                last_call.args = IF c.bare = EMPTY THEN for_nothing ELSE <<c.bare>>

Contains(s, text) ==
  \E i \in 1..(Len(s) - Len(text) + 1) : SubSeq(s, i, i + Len(text) - 1) = text

\* C19: every turn starts from a context of exactly three messages, the
\* persona, the memory context and the utterance, in this order, whatever
\* the earlier turns did; no tool result and no tool-call reply of an
\* earlier turn is in it, and of a turn only the utterance and the final
\* answer go to memory as its exchange.
C19_FreshContext ==
  [][ /\ (pc = "retrieve" /\ pc' = "think") =>
           /\ Len(messages') = 3
           /\ messages'[1] = [role |-> "system", content |-> persona_prompt]
           /\ messages'[2].role = "system"
           /\ startswith(messages'[2].content, CONTEXT_PREFIX)
           /\ messages'[3] = [role |-> "user", content |-> user_input]
           /\ \A r \in ToolReplies :
                ~Contains(messages'[2].content, strip(r, Whitespace))
           /\ ~Contains(messages'[2].content, TOOL_OUTPUT_PREFIX)
           /\ step_count' = 0 /\ full_response' = EMPTY
      /\ memory' # memory =>
           /\ SubSeq(memory', 1, Len(memory)) = memory
           /\ \A i \in (Len(memory) + 1)..Len(memory') :
                /\ ~Contains(memory'[i].text, TOOL_OUTPUT_PREFIX)
                /\ memory'[i].speaker = "assistant" =>
                     /\ turn_log # << >>
                     /\ memory'[i].text =
                          ASSISTANT_RESPONDED \o turn_log[Len(turn_log)].full_answer
                     /\ memory'[i - 1] =
                          [speaker |-> "user",
                           text |-> USER_SAID \o turn_log[Len(turn_log)].user_input] ]_vars

\* the second turn starts after a turn of five tool results that was
\* persisted
C19_Witness ==
  /\ pc = "think" /\ step_count = 0
  /\ Len(messages) = 3
  /\ Len(turn_log) = 1 /\ turn_log[1].turn_state = "ABORTED"
  /\ Len(memory) >= 3

\* C20: the crash report is recorded before the apology: in every state in
\* which the handler has spoken the apology for an error, the crash file
\* holds the report of that error.
C20_CrashBeforeApology ==
  (last_spoken = APOLOGY /\ error # EMPTY) =>
    crash_file = error \o <<"\n">> \o TRACEBACK

\* C21: within a turn the context only grows at its end, by exactly one
\* system message holding the tool result for every dispatch, the dispatch
\* that reaches the step bound included: its length is always 3 + the
\* dispatches so far, its first three messages stay the persona, the memory
\* context and the utterance, and no reply of the model is ever added.
C21_ContextAppendOnly ==
  [][ /\ pc' \in {"think", "step_bound"} =>
           /\ Len(messages') = 3 + dispatches'
           /\ messages'[1] = [role |-> "system", content |-> persona_prompt]
           /\ messages'[2].role = "system"
           /\ startswith(messages'[2].content, <<"R", "e", "l", "e", "v", "a", "n", "t">>)
           /\ messages'[3] = [role |-> "user", content |-> user_input']
      /\ (pc \in {"think", "step_bound"} /\ pc' \in {"think", "step_bound"}) =>
           /\ SubSeq(messages', 1, Len(messages)) = messages
           /\ Len(messages') - Len(messages) = dispatches' - dispatches
           /\ dispatches' - dispatches = IF pc = "think" THEN 1 ELSE 0
           /\ \A i \in (Len(messages) + 1)..Len(messages') :
                /\ messages'[i].role = "system"
                /\ startswith(messages'[i].content, <<"T", "o", "o", "l", " ", "o", "u", "t", "p", "u", "t", ":", "\n">>)
                /\ messages'[i].content # assistant_reply'
                /\ ~Contains(messages'[i].content, assistant_reply') ]_vars

\* the fifth dispatch of a turn has added its result: the context holds the
\* three initial messages and five tool results
C21_Witness ==
  /\ pc = "step_bound"
  /\ step_count = MaxSteps
  /\ dispatches = MaxSteps
  /\ Len(messages) = 3 + MaxSteps
  /\ messages[3] = [role |-> "user", content |-> HELLO]

\* the sentence the inference adapter answers with when the call failed
InferenceApology == <<"I", "'", "m", " ", "s", "o", "r", "r", "y", ",", " ", "I", " ", "e", "n", "c", "o", "u", "n", "t", "e", "r", "e", "d", " ", "a", "n", " ", "e", "r", "r", "o", "r", " ", "a", "n", "d", " ", "c", "o", "u", "l", "d", "n", "'", "t", " ", "p", "r", "o", "c", "e", "s", "s", " ", "y", "o", "u", "r", " ", "r", "e", "q", "u", "e", "s", "t", ".">>

\* C22: a failed inference call in the tool loop does not crash the turn and
\* is not taken as no reply: the loop receives the fixed apology sentence,
\* the turn is FINALIZED with that sentence as its answer, the sentence is
\* what the response file holds and what goes to memory as the assistant's
\* answer, and the failure itself never reaches the error handler: a crash
\* report is written in such a turn only for a failure of a later step.
C22_InferenceFailureAnswered ==
  [][ /\ (pc = "think" /\ llm_calls' = llm_calls + 1 /\ llm_failed') =>
           /\ raw_reply' = InferenceApology
           /\ full_response' = InferenceApology
           /\ turn_state' = "FINALIZED" /\ pc' = "finalize"
           /\ dispatches' = dispatches
           /\ error' = error /\ crash_file' = crash_file
      /\ llm_failed =>
           /\ turn_state = "FINALIZED"
           /\ full_response = InferenceApology
           /\ (pc = "finalize" /\ pc' = "speak") =>
                /\ files'[file_path'] = InferenceApology
                /\ turn_log'[Len(turn_log')].turn_state = "FINALIZED"
                /\ turn_log'[Len(turn_log')].full_answer = InferenceApology
           /\ (pc = "add_memory" /\ pc' = "add_system_memory") =>
                /\ Len(memory') = Len(memory) + 2
                /\ memory'[Len(memory') - 1] =
                     [speaker |-> "user", text |-> USER_SAID \o user_input]
                /\ memory'[Len(memory')] =
                     [speaker |-> "assistant",
                      text |-> ASSISTANT_RESPONDED \o InferenceApology]
           /\ error' # error =>
                error' \in {EMPTY, <<"write">>, <<"add_memory">>, <<"add_system_memory">>}
           /\ crash_file' # crash_file => error # EMPTY ]_vars

\* a turn whose inference call failed has run through step 7 with the
\* apology as its answer, and there is no crash report
C22_Witness ==
  /\ turn_done /\ llm_failed
  /\ llm_calls = 1
  /\ files[file_path] = InferenceApology
  /\ memory[Len(memory) - 1].text = ASSISTANT_RESPONDED \o InferenceApology
  /\ crash_file = NoFile

\* the process is inside the tool loop of a turn
InLoop == pc \in {"think", "step_bound"}

\* C23: the step counter starts at 0 in every turn, whatever the turns
\* before did: inside the loop it counts the inference calls of this turn
\* alone and never exceeds 5, a turn is ABORTED only after its own 5
\* dispatches, and with every collaborator call returning the loop of every
\* turn is left (FINALIZED, ABORTED, or by an exception or the interrupt).
C23_StepCounterReset ==
  /\ [][ /\ (pc = "retrieve" /\ pc' = "think") => step_count' = 0
         /\ InLoop' =>
              /\ step_count' = llm_calls'
              /\ step_count' <= 5
              /\ dispatches' <= 5
         /\ (InLoop /\ pc' = "finalize") =>
              /\ turn_state' \in {"FINALIZED", "ABORTED"}
              /\ turn_state' = "ABORTED" <=> dispatches' = 5
         /\ (InLoop /\ InLoop') =>
              2 * step_count' + (IF pc' = "think" THEN 1 ELSE 0)
                > 2 * step_count + (IF pc = "think" THEN 1 ELSE 0) ]_vars
  /\ InLoop ~> ~InLoop

\* the second turn has made its own five dispatches after a first turn that
\* was aborted
C23_Witness ==
  /\ Len(turn_log) = 1 /\ turn_log[1].turn_state = "ABORTED"
  /\ pc = "finalize" /\ turn_state = "ABORTED"
  /\ step_count = 5 /\ dispatches = 5

\* the positions of a turn, from the accepted utterance to step 7
InTurn == {"retrieve", "think", "step_bound", "finalize", "speak", "add_memory",
           "add_system_memory"}

\* the self-reflection note that names path
ReflectionNaming(path) ==
  [speaker |-> "system",
   text |-> <<"(", "S", "e", "l", "f", "-", "r", "e", "f", "l", "e", "c", "t", "i", "o", "n", ":", " ", "P", "r", "o", "v", "i", "d", "e", "d", " ", "a", " ", "d", "e", "t", "a", "i", "l", "e", "d", " ", "a", "n", "s", "w", "e", "r", ".", " ", "F", "u", "l", "l", " ", "r", "e", "s", "p", "o", "n", "s", "e", " ", "s", "a", "v", "e", "d", " ", "t", "o", " ", "'">>
           \o path \o <<"'", ".", ")">>]

\* C24: a turn writes to memory only at its end, when it is completed: a
\* turn that ends in the error handler or is cut off by the interrupt has
\* changed nothing in memory and leaves no exchange record that lacks its
\* self-reflection note, and the step that completes a turn leaves memory
\* as it was when the turn began, plus one exchange record of the utterance
\* and the answer, plus one self-reflection note naming the turn's file.
C24_MemoryOnlyForCompletedTurns ==
  [][ /\ (memory' # memory /\ pc \in InTurn) =>
           /\ pc \in {"add_memory", "add_system_memory"}
           /\ SubSeq(memory', 1, Len(memory)) = memory
      /\ (pc \in InTurn /\ (pc' = "except" \/ pc' = "exited")) =>
           /\ memory' = memory
           /\ memory # << >> => memory[Len(memory)].speaker = "system"
      /\ (turn_done' /\ ~turn_done) =>
           /\ Len(memory') >= 3
           /\ memory'[Len(memory') - 2] =
                [speaker |-> "user", text |-> USER_SAID \o user_input]
           /\ memory'[Len(memory') - 1] =
                [speaker |-> "assistant", text |-> ASSISTANT_RESPONDED \o full_response]
           /\ memory'[Len(memory')] = ReflectionNaming(file_path)
           /\ file_path = turn_log[Len(turn_log)].artifact_path
           /\ Len(memory') = Len(memory) + 1
           /\ Len(memory') >= 4 => memory'[Len(memory') - 3].speaker = "system" ]_vars

====
